---- MODULE Spec2Model ----
(***************************************************************************)
(* devimteam/jsonrpc: the JSON-RPC 2.0 server.                             *)
(*                                                                         *)
(* The dispatcher (Server.ServeHTTP), the server's registration methods,   *)
(* the plain-text WriteError and the error model are translated from       *)
(* server.go.  The response sink is the ResponseRecorder of                *)
(* json2/json_test.go.  The method table (serviceMap) and the json2 codec  *)
(* (server and client side) are used by server.go and by the tests but     *)
(* their code is not part of the sources at hand: they are modelled from   *)
(* the specification's sections 4.1, 4.2 and 7.                            *)
(*                                                                         *)
(* Strings the code inspects character by character (content types) are    *)
(* sequences of one-character strings; all other strings are TLA+ strings. *)
(***************************************************************************)
EXTENDS Integers, Sequences, FiniteSets, TLC

\* codecs, services and before are the fields of the server; disp is the
\* dispatch of the exchange at hand and client what its caller decoded;
\* flights are the dispatches that run concurrently.  hist is a history
\* variable: the registrations made so far.
VARIABLES codecs, services, before, disp, client, flights, hist

vars == <<codecs, services, before, disp, client, flights, hist>>

-----------------------------------------------------------------------------
(* Bounds of the model *)

\* the longest list of ServerBefore options given to NewServer
MaxHooks == 2

-----------------------------------------------------------------------------
(* Error model: ErrorCode, Error, NewError, ErrNullResult *)

E_PARSE == -32700
E_INVALID_REQ == -32600
E_NO_METHOD == -32601
E_BAD_PARAMS == -32602
E_INTERNAL == -32603
\* a slip: the default wrap given the code of the internal error
E_SERVER_Internal == E_INTERNAL
E_SERVER == -32000

\* the nil error
NilErr == [kind |-> "nil"]

\* NewError: a tagged protocol *Error
NewError(code, message) == [kind |-> "Error", Code |-> code, Message |-> message]

\* errors.New: an untagged error value; ref is the identity of the value
errorsNew(ref, message) == [kind |-> "plain", ref |-> ref, Message |-> message]

\* (e *Error).Error(), and Error() of an errors.New value
ErrorString(e) == e.Message

\* a slip: the null result reported as a generic decode error
ErrNullResult_Generic == errorsNew("json", "unexpected end of JSON input")

ErrNullResult == errorsNew("ErrNullResult", "result is null")

\* the tagged error the test service returns
ErrResponseError == NewError(E_SERVER, "response error")

-----------------------------------------------------------------------------
(* Strings as character sequences: strings.ToLower, strings.Index, s[:idx] *)

LowerChar(c) == IF c = "A" THEN "a" ELSE IF c = "B" THEN "b" ELSE c

ToLower(s) == [i \in DOMAIN s |-> LowerChar(s[i])]

\* strings.Index(s, c): the 0-based index of the first c in s, -1 if none
Index(s, c) ==
    IF \E i \in DOMAIN s : s[i] = c
    THEN (CHOOSE i \in DOMAIN s : s[i] = c /\ \A j \in 1..(i - 1) : s[j] # c) - 1
    ELSE -1

\* s[:idx]
Prefix(s, idx) == SubSeq(s, 1, idx)

\* the Go string of a character sequence
RECURSIVE Str(_)
Str(s) == IF s = <<>> THEN "" ELSE Head(s) \o Str(Tail(s))

-----------------------------------------------------------------------------
(* JSON values and Go values *)

JAbsent == [t |-> "absent"]
JNull == [t |-> "null"]
JObj(f) == [t |-> "obj", f |-> f]
JArr(a) == [t |-> "arr", a |-> a]

GoNil == [t |-> "nil"]
GoPtr(type, val) == [t |-> "ptr", type |-> type, val |-> val]
GoCtx(ctx) == [t |-> "ctx", ctx |-> ctx]

\* the type of a context parameter
typeOfContext == "context.Context"

\* the zero value of a struct type: what reflect.New allocates
Zero(type) ==
    CASE type = "Service1Request" -> [A |-> 0, B |-> 0]
      [] type = "Service1Response" -> [Result |-> 0]
      [] type = "WhoResponse" -> [Trail |-> <<>>]
      [] OTHER -> [A |-> 0, B |-> 0]

\* json.Marshal of a method's result value
Marshal(v) == IF v.t = "nil" THEN JNull ELSE JObj(v.val)

\* json.Unmarshal into a struct holder: an object binds by field name, null
\* leaves the holder alone, anything else is a type error
Unmarshal(j, holder) ==
    CASE j.t = "obj" ->
            [ok |-> TRUE,
             val |-> [k \in DOMAIN holder |->
                        IF k \in DOMAIN j.f THEN j.f[k] ELSE holder[k]]]
      [] j.t = "null" -> [ok |-> TRUE, val |-> holder]
      [] OTHER -> [ok |-> FALSE, val |-> holder]

-----------------------------------------------------------------------------
(* The response sink: ResponseRecorder.  HeaderMap maps a header name to its  *)
(* value; Body is the sequence of chunks written; log records the mutations   *)
(* in order, a WriteHeader together with the headers set when it is called.   *)

NewRecorder ==
    [Code |-> 0, HeaderMap |-> [k \in {} |-> ""], Body |-> <<>>, log |-> <<>>]

\* rw.Header().Set(key, value)
HeaderSet(rw, key, value) ==
    [rw EXCEPT !.HeaderMap = [k \in DOMAIN @ \cup {key} |->
                                 IF k = key THEN value ELSE @[k]],
               !.log = Append(@, [op |-> "Header.Set", key |-> key])]

\* rw.WriteHeader(code)
WriteHeader(rw, code) ==
    [rw EXCEPT !.Code = code,
               !.log = Append(@, [op |-> "WriteHeader", code |-> code,
                                  header |-> rw.HeaderMap])]

\* rw.Write(buf)
Write(rw, buf) ==
    [rw EXCEPT !.Body = Append(@, buf),
               !.Code = IF @ = 0 THEN 200 ELSE @,
               !.log = Append(@, [op |-> "Write"])]

\* WriteError(w, status, msg): the plain-text error of the transport level
WriteError(rw, status, msg) ==
    LET w1 == WriteHeader(rw, status)
        w2 == HeaderSet(w1, "Content-Type", "text/plain; charset=utf-8")
    IN  Write(w2, [t |-> "text", msg |-> msg])

-----------------------------------------------------------------------------
(* Requests.  Header is the list of Content-Type values of the request (empty *)
(* when the header is absent); Body is malformed or a request envelope.       *)

\* r.Header.Get("Content-Type"): the first value, "" when there is none
HeaderGet(header) == IF header = <<>> THEN <<>> ELSE header[1]

BadBody == [t |-> "bad"]
Envelope(method, params, id) ==
    [t |-> "req", method |-> method, params |-> params, id |-> id]

-----------------------------------------------------------------------------
(* The json2 codec, server side (specification, section 4.2) *)

\* codec.NewRequest(r): the codec request wraps the one inbound request
CodecNewRequest(codec, r) == [codec |-> codec, raw |-> r.Body]

\* the id echoed in the response: the request's id, null when it has none
CodecId(codecReq) ==
    IF codecReq.raw.t = "req" THEN [t |-> "num", n |-> codecReq.raw.id] ELSE JNull

\* codecReq.Method(): the method name, or a parse error on a malformed payload
CodecMethod(codecReq) ==
    IF codecReq.raw.t = "req"
    THEN [method |-> codecReq.raw.method, err |-> NilErr]
    ELSE [method |-> "", err |-> NewError(E_PARSE, "parse error")]

\* codecReq.ReadRequest(holder): params absent or empty leaves the holder at its
\* zero value, an object is decoded by field name, a positional array fails
CodecReadRequest(codecReq, holder) ==
    LET params == codecReq.raw.params
        got == Unmarshal(params, holder)
    IN  IF params.t = "absent"
        THEN [val |-> holder, err |-> NilErr]
        ELSE IF got.ok
             THEN [val |-> got.val, err |-> NilErr]
             ELSE [val |-> holder,
                   err |-> NewError(E_BAD_PARAMS, "cannot unmarshal params")]

\* codecReq.WriteResponse(w, value): the envelope with result = value
CodecWriteResponse(codecReq, rw, value) ==
    Write(rw, [t |-> "json", id |-> CodecId(codecReq),
               result |-> Marshal(value), error |-> JAbsent])

\* the error put on the wire: a tagged Error as it is, any other error wrapped
\* with E_SERVER and its message text
WireError(err) ==
    IF err.kind = "Error" THEN err ELSE NewError(E_SERVER, ErrorString(err))

\* codecReq.WriteError(w, status, err): the envelope with error = {code, message};
\* the status is advisory and not put on the transport
CodecWriteError(codecReq, rw, status, err) ==
    LET jsonErr == WireError(err)
    IN  Write(rw, [t |-> "json", id |-> CodecId(codecReq),
                   result |-> JAbsent,
                   error |-> JObj([code |-> jsonErr.Code,
                                   message |-> jsonErr.Message])])

-----------------------------------------------------------------------------
(* The json2 codec, client side (specification, sections 3 and 7) *)

\* DecodeClientResponse(body, res): res is the caller's output value
DecodeClientResponse(body, res) ==
    IF Len(body) # 1 \/ body[1].t # "json"
    THEN [res |-> res, err |-> errorsNew("json", "invalid character")]
    ELSE LET c == body[1] IN
         IF c.error.t = "obj"
         THEN [res |-> res,
               err |-> NewError(c.error.f.code, c.error.f.message)]
         ELSE IF c.result.t \in {"absent", "null"}
              THEN [res |-> res, err |-> ErrNullResult]
              ELSE LET got == Unmarshal(c.result, res) IN
                   IF got.ok
                   THEN [res |-> got.val, err |-> NilErr]
                   ELSE [res |-> res,
                         err |-> errorsNew("json", "cannot unmarshal result")]

-----------------------------------------------------------------------------
(* The method table (specification, sections 3 and 4.1) *)

\* The exported methods of a receiver type, each with its declared parameter
\* types after the receiver.  Service1 is the service of the tests; Service2
\* has the other supported shapes: a context parameter, a context parameter
\* followed by one or by two business parameters, and no parameter at all.
TypeMethods(type) ==
    CASE type = "Service1" ->
            {[name |-> "Multiply", argsType |-> <<"Service1Request">>],
             [name |-> "ResponseError", argsType |-> <<"Service1Request">>]}
      [] type = "Service2" ->
            {[name |-> "Who", argsType |-> <<typeOfContext>>],
             [name |-> "Fail", argsType |-> <<typeOfContext, "Service1Request">>],
             [name |-> "Sum",
              argsType |-> <<typeOfContext, "Service1Request", "Service1Request">>],
             [name |-> "Null", argsType |-> <<>>]}
      [] OTHER -> {}

\* services.register(receiver, name): the methods are stored under
\* "<name>.<MethodName>", the name defaulting to the receiver's type name
ServicesRegister(svcs, rcvr, name) ==
    LET sname == IF name = "" THEN rcvr ELSE name
        added == {sname \o "." \o m.name : m \in TypeMethods(rcvr)}
        specOf(key) == CHOOSE m \in TypeMethods(rcvr) : key = sname \o "." \o m.name
    IN  [key \in DOMAIN svcs \cup added |->
            IF key \in added
            THEN [rcvr |-> rcvr, method |-> specOf(key).name,
                  argsType |-> specOf(key).argsType]
            ELSE svcs[key]]

\* services.get(method): the service and method specs, or MethodNotFound
ServicesGet(svcs, method) ==
    IF method \in DOMAIN svcs
    THEN [spec |-> svcs[method], err |-> NilErr]
    ELSE [spec |-> [rcvr |-> "", method |-> "", argsType |-> <<>>],
          err |-> NewError(E_NO_METHOD, "rpc: can't find method " \o method)]

-----------------------------------------------------------------------------
(* The service methods and the hooks: what the reflective call and the hook   *)
(* calls run.                                                                 *)

Service1DefaultResponse == 9999

\* (t *Service1) Multiply(req)
Multiply(req) ==
    [val |-> GoPtr("Service1Response",
                   [Result |-> IF req.A = 0 /\ req.B = 0
                               THEN Service1DefaultResponse
                               ELSE req.A * req.B]),
     err |-> NilErr]

\* (t *Service1) ResponseError(req)
ResponseError(req) == [val |-> GoNil, err |-> ErrResponseError]

\* methodSpec.method.Func.Call(refValue): refValue[1] is the receiver
Call(spec, refValue) ==
    CASE spec.rcvr = "Service1" /\ spec.method = "Multiply" ->
            Multiply(refValue[2].val)
      [] spec.rcvr = "Service1" /\ spec.method = "ResponseError" ->
            ResponseError(refValue[2].val)
      [] spec.rcvr = "Service2" /\ spec.method = "Who" ->
            [val |-> GoPtr("WhoResponse", [Trail |-> refValue[2].ctx]),
             err |-> NilErr]
      [] spec.rcvr = "Service2" /\ spec.method = "Fail" ->
            [val |-> GoNil, err |-> errorsNew("boom", "boom")]
      [] spec.rcvr = "Service2" /\ spec.method = "Sum" ->
            [val |-> GoPtr("Service1Response",
                           [Result |-> refValue[3].val.A + refValue[4].val.B]),
             err |-> NilErr]
      [] OTHER -> [val |-> GoNil, err |-> NilErr]

\* The hooks a server may be given.  A context is the list of the values
\* attached to it; each hook returns the context it is given with one more
\* value attached.
Hooks == {"h1", "h2"}

\* before(ctx, method, r.Header, codecReq)
RunHook(h, ctx, method, header, codecReq) == Append(ctx, h)

-----------------------------------------------------------------------------
(* The server: NewServer, ServerBefore, RegisterCodec, RegisterService,       *)
(* HasMethod.  A server is [codecs, services, before].                        *)

\* the empty map
EmptyMap == [k \in {} |-> ""]

\* ServerBefore(before): the option appending one hook
ServerBefore(h, s) == [s EXCEPT !.before = Append(@, h)]

RECURSIVE ApplyOptions(_, _)
ApplyOptions(s, options) ==
    IF options = <<>> THEN s
    ELSE ApplyOptions(ServerBefore(Head(options), s), Tail(options))

\* NewServer(options...)
NewServer(options) ==
    ApplyOptions([codecs |-> EmptyMap, services |-> EmptyMap, before |-> <<>>],
                 options)

\* a slip: the content type is stored as given
CodecsPut_AsGiven(m, contentType, codec) ==
    [k \in DOMAIN m \cup {contentType} |->
        IF k = contentType THEN codec ELSE m[k]]

\* s.codecs[strings.ToLower(contentType)] = codec
CodecsPut(m, contentType, codec) ==
    [k \in DOMAIN m \cup {ToLower(contentType)} |->
        IF k = ToLower(contentType) THEN codec ELSE m[k]]

\* a slip: the error of the lookup is read the wrong way round
HasMethod_ErrIsFound(svcs, method) == ServicesGet(svcs, method).err # NilErr

\* s.HasMethod(method)
HasMethod(svcs, method) == ServicesGet(svcs, method).err = NilErr

-----------------------------------------------------------------------------
(* The dispatcher, Server.ServeHTTP, as the steps of one dispatch.  A         *)
(* dispatch d holds the request, the locals of ServeHTTP, the response sink   *)
(* w and calls, the list of the calls made so far.                            *)

NoSpec == [rcvr |-> "", method |-> "", argsType |-> <<>>]

\* the entry of ServeHTTP: ctx := r.Context()
NewDispatch(r) ==
    [pc |-> "verb", r |-> r, ctx |-> r.Ctx, codec |-> "",
     codecReq |-> [codec |-> "", raw |-> BadBody], method |-> "", i |-> 1,
     spec |-> NoSpec, refValue |-> <<>>,
     ret |-> [val |-> GoNil, err |-> NilErr],
     w |-> NewRecorder, calls |-> <<>>]

Log(d, e) == [d EXCEPT !.calls = Append(@, e)]

\* WriteError(w, status, msg); return
PlainError(d, status, msg) ==
    [Log(d, [op |-> "WriteError", status |-> status, msg |-> msg])
        EXCEPT !.w = WriteError(d.w, status, msg), !.pc = "done"]

\* codecReq.WriteError(w, 400, err); return
CodecError(d, status, err) ==
    [Log(d, [op |-> "codec.WriteError", codec |-> d.codecReq.codec,
             status |-> status, err |-> err])
        EXCEPT !.w = CodecWriteError(d.codecReq, d.w, status, err),
               !.pc = "done"]

\* a slip: the verb compared ignoring case
StepVerb_AnyCase(d) ==
    IF d.r.Method \notin {"POST", "post"}
    THEN PlainError(d, 405, "rpc: POST method required, received " \o d.r.Method)
    ELSE [d EXCEPT !.pc = "codec"]

\* if r.Method != "POST"
StepVerb(d) ==
    IF d.r.Method # "POST"
    THEN PlainError(d, 405, "rpc: POST method required, received " \o d.r.Method)
    ELSE [d EXCEPT !.pc = "codec"]

\* a slip: the charset definition is not cut off
ContentTypeOf_NoStrip(r) == HeaderGet(r.Header)

\* the content type of the request, without the charset definition
ContentTypeOf(r) ==
    LET contentType == HeaderGet(r.Header)
        idx == Index(contentType, ";")
    IN  IF idx # -1 THEN Prefix(contentType, idx) ELSE contentType

\* a slip: the default taken whenever some codec is registered
StepCodec_AnyDefault(s, d) ==
    LET contentType == ContentTypeOf(d.r) IN
    IF contentType = <<>> /\ Cardinality(DOMAIN s.codecs) >= 1
    THEN [d EXCEPT !.codec = s.codecs[CHOOSE k \in DOMAIN s.codecs : TRUE],
                   !.pc = "method"]
    ELSE IF ToLower(contentType) \in DOMAIN s.codecs
         THEN [d EXCEPT !.codec = s.codecs[ToLower(contentType)],
                        !.pc = "method"]
         ELSE PlainError(d, 415,
                         "rpc: unrecognized Content-Type: " \o Str(contentType))

\* the selection of the codec
StepCodec(s, d) ==
    LET contentType == ContentTypeOf(d.r) IN
    IF contentType = <<>> /\ Cardinality(DOMAIN s.codecs) = 1
    THEN [d EXCEPT !.codec = s.codecs[CHOOSE k \in DOMAIN s.codecs : TRUE],
                   !.pc = "method"]
    ELSE IF ToLower(contentType) \in DOMAIN s.codecs
         THEN [d EXCEPT !.codec = s.codecs[ToLower(contentType)],
                        !.pc = "method"]
         ELSE PlainError(d, 415,
                         "rpc: unrecognized Content-Type: " \o Str(contentType))

\* codecReq := codec.NewRequest(r); method, errMethod := codecReq.Method()
StepMethod(d) ==
    LET codecReq == CodecNewRequest(d.codec, d.r)
        got == CodecMethod(codecReq)
        d1 == [Log(Log(d, [op |-> "codec.NewRequest", codec |-> d.codec]),
                   [op |-> "codec.Method", codec |-> d.codec])
                 EXCEPT !.codecReq = codecReq]
    IN  IF got.err # NilErr
        THEN CodecError(d1, 400, got.err)
        ELSE [d1 EXCEPT !.method = got.method, !.pc = "before", !.i = 1]

\* a slip: every hook is given the request's context
StepBefore_RequestCtx(s, d) ==
    IF d.i > Len(s.before)
    THEN [d EXCEPT !.pc = "get"]
    ELSE LET h == s.before[d.i]
             out == RunHook(h, d.r.Ctx, d.method, d.r.Header, d.codecReq)
         IN  [Log(d, [op |-> "before", hook |-> h, method |-> d.method,
                      ctxIn |-> d.r.Ctx, ctxOut |-> out])
                EXCEPT !.ctx = out, !.i = d.i + 1]

\* a slip: the hooks run only for a method that is registered
StepBefore_OnlyKnown(s, d) ==
    IF d.i > Len(s.before) \/ ServicesGet(s.services, d.method).err # NilErr
    THEN [d EXCEPT !.pc = "get"]
    ELSE LET h == s.before[d.i]
             out == RunHook(h, d.ctx, d.method, d.r.Header, d.codecReq)
         IN  [Log(d, [op |-> "before", hook |-> h, method |-> d.method,
                      ctxIn |-> d.ctx, ctxOut |-> out])
                EXCEPT !.ctx = out, !.i = d.i + 1]

\* for _, before := range s.before { ctx = before(ctx, method, r.Header, codecReq) }
StepBefore(s, d) ==
    IF d.i > Len(s.before)
    THEN [d EXCEPT !.pc = "get"]
    ELSE LET h == s.before[d.i]
             out == RunHook(h, d.ctx, d.method, d.r.Header, d.codecReq)
         IN  [Log(d, [op |-> "before", hook |-> h, method |-> d.method,
                      ctxIn |-> d.ctx, ctxOut |-> out])
                EXCEPT !.ctx = out, !.i = d.i + 1]

\* a slip: errGet is not looked at
StepGet_IgnoreErr(s, d) ==
    LET got == ServicesGet(s.services, d.method)
        d1 == Log(d, [op |-> "services.get", method |-> d.method])
    IN  [d1 EXCEPT !.spec = got.spec,
                   !.refValue = <<[t |-> "rcvr", type |-> got.spec.rcvr]>>,
                   !.pc = "args", !.i = 1]

\* a slip: the return after the error response of the lookup is missing
StepGet_NoReturn(s, d) ==
    LET got == ServicesGet(s.services, d.method)
        d1 == Log(d, [op |-> "services.get", method |-> d.method])
        d2 == IF got.err # NilErr THEN CodecError(d1, 400, got.err) ELSE d1
    IN  [d2 EXCEPT !.spec = got.spec,
                   !.refValue = <<[t |-> "rcvr", type |-> got.spec.rcvr]>>,
                   !.pc = "args", !.i = 1]

\* serviceSpec, methodSpec, errGet := s.services.get(method)
StepGet(s, d) ==
    LET got == ServicesGet(s.services, d.method)
        d1 == Log(d, [op |-> "services.get", method |-> d.method])
    IN  IF got.err # NilErr
        THEN CodecError(d1, 400, got.err)
        ELSE [d1 EXCEPT !.spec = got.spec,
                        !.refValue = <<[t |-> "rcvr", type |-> got.spec.rcvr]>>,
                        !.pc = "args", !.i = 1]

\* a slip: errRead is not looked at
StepArgs_IgnoreReadErr(d) ==
    IF d.i > Len(d.spec.argsType)
    THEN [d EXCEPT !.pc = "call"]
    ELSE LET type == d.spec.argsType[d.i]
             arg == Zero(type)
             got == CodecReadRequest(d.codecReq, arg)
             d1 == Log(d, [op |-> "codec.ReadRequest", type |-> type,
                           holder |-> arg])
         IN  IF type # typeOfContext
             THEN [d1 EXCEPT !.refValue = Append(@, GoPtr(type, got.val)),
                             !.i = d.i + 1]
             ELSE [d EXCEPT !.refValue = Append(@, GoCtx(d.ctx)),
                            !.i = d.i + 1]

\* a slip: a request without params is refused before the decode
StepArgs_RequireParams(d) ==
    IF d.i > Len(d.spec.argsType)
    THEN [d EXCEPT !.pc = "call"]
    ELSE LET type == d.spec.argsType[d.i]
             arg == Zero(type)
             got == CodecReadRequest(d.codecReq, arg)
             d1 == Log(d, [op |-> "codec.ReadRequest", type |-> type,
                           holder |-> arg])
         IN  IF type # typeOfContext
             THEN IF got.err # NilErr \/ d.codecReq.raw.params = JAbsent
                  THEN CodecError(d1, 400,
                                  NewError(E_BAD_PARAMS, "params required"))
                  ELSE [d1 EXCEPT !.refValue = Append(@, GoPtr(type, got.val)),
                                  !.i = d.i + 1]
             ELSE [d EXCEPT !.refValue = Append(@, GoCtx(d.ctx)),
                            !.i = d.i + 1]

\* a slip: the decoder is called for the context parameter as well
StepArgs_DecodeContext(d) ==
    IF d.i > Len(d.spec.argsType)
    THEN [d EXCEPT !.pc = "call"]
    ELSE LET type == d.spec.argsType[d.i]
             arg == Zero(type)
             got == CodecReadRequest(d.codecReq, arg)
             d1 == Log(d, [op |-> "codec.ReadRequest", type |-> type,
                           holder |-> arg])
         IN  IF got.err # NilErr
             THEN CodecError(d1, 400, got.err)
             ELSE [d1 EXCEPT !.refValue =
                                Append(@, IF type # typeOfContext
                                          THEN GoPtr(type, got.val)
                                          ELSE GoCtx(d.ctx)),
                             !.i = d.i + 1]

\* the loop over methodSpec.argsType: one declared parameter
StepArgs(d) ==
    IF d.i > Len(d.spec.argsType)
    THEN [d EXCEPT !.pc = "call"]
    ELSE LET type == d.spec.argsType[d.i]
             arg == Zero(type)
             got == CodecReadRequest(d.codecReq, arg)
             d1 == Log(d, [op |-> "codec.ReadRequest", type |-> type,
                           holder |-> arg])
         IN  IF type # typeOfContext
             THEN IF got.err # NilErr
                  THEN CodecError(d1, 400, got.err)
                  ELSE [d1 EXCEPT !.refValue = Append(@, GoPtr(type, got.val)),
                                  !.i = d.i + 1]
             ELSE [d EXCEPT !.refValue = Append(@, GoCtx(d.ctx)),
                            !.i = d.i + 1]

\* retValues := methodSpec.method.Func.Call(refValue)
StepCall(d) ==
    [Log(d, [op |-> "Call", rcvr |-> d.spec.rcvr, method |-> d.spec.method,
             args |-> Tail(d.refValue)])
        EXCEPT !.ret = Call(d.spec, d.refValue), !.pc = "encode"]

\* a slip: the nosniff header is not set
StepEncode_NoHeader(d) ==
    IF d.ret.err = NilErr
    THEN [Log(d, [op |-> "codec.WriteResponse", codec |-> d.codecReq.codec,
                  val |-> d.ret.val])
            EXCEPT !.w = CodecWriteResponse(d.codecReq, d.w, d.ret.val),
                   !.pc = "done"]
    ELSE CodecError(d, 400, d.ret.err)

\* a slip: the error return is not looked at
StepEncode_AlwaysResponse(d) ==
    LET w1 == HeaderSet(d.w, "X-Content-Type-Options", "nosniff") IN
    [Log(d, [op |-> "codec.WriteResponse", codec |-> d.codecReq.codec,
             val |-> d.ret.val])
       EXCEPT !.w = CodecWriteResponse(d.codecReq, w1, d.ret.val),
              !.pc = "done"]

\* a slip: the nosniff header is set after the response is encoded
StepEncode_HeaderLast(d) ==
    LET d1 == IF d.ret.err = NilErr
              THEN [Log(d, [op |-> "codec.WriteResponse",
                            codec |-> d.codecReq.codec, val |-> d.ret.val])
                      EXCEPT !.w = CodecWriteResponse(d.codecReq, d.w, d.ret.val),
                             !.pc = "done"]
              ELSE CodecError(d, 400, d.ret.err)
    IN  [d1 EXCEPT !.w = HeaderSet(@, "X-Content-Type-Options", "nosniff")]

\* the nosniff header, then the encoding of the response
StepEncode(d) ==
    LET w1 == HeaderSet(d.w, "X-Content-Type-Options", "nosniff") IN
    IF d.ret.err = NilErr
    THEN [Log(d, [op |-> "codec.WriteResponse", codec |-> d.codecReq.codec,
                  val |-> d.ret.val])
            EXCEPT !.w = CodecWriteResponse(d.codecReq, w1, d.ret.val),
                   !.pc = "done"]
    ELSE [CodecError(d, 400, d.ret.err)
            EXCEPT !.w = CodecWriteError(d.codecReq, w1, 400, d.ret.err)]

\* one step of a dispatch
Step(s, d) ==
    CASE d.pc = "verb" -> StepVerb(d)
      [] d.pc = "codec" -> StepCodec(s, d)
      [] d.pc = "method" -> StepMethod(d)
      [] d.pc = "before" -> StepBefore(s, d)
      [] d.pc = "get" -> StepGet(s, d)
      [] d.pc = "args" -> StepArgs(d)
      [] d.pc = "call" -> StepCall(d)
      [] d.pc = "encode" -> StepEncode(d)
      [] OTHER -> d

RECURSIVE Run(_, _)
Run(s, d) == IF d.pc = "done" THEN d ELSE Run(s, Step(s, d))

\* s.ServeHTTP(w, r) with a fresh recorder w
ServeHTTP(s, r) == Run(s, NewDispatch(r))

-----------------------------------------------------------------------------
(* The inputs of the model *)

\* all sequences over S of length at most n
RECURSIVE SeqsUpTo(_, _)
SeqsUpTo(S, n) ==
    IF n = 0 THEN {<<>>}
    ELSE LET shorter == SeqsUpTo(S, n - 1)
         IN  shorter \cup {Append(q, x) : q \in shorter, x \in S}

\* the codecs a server may be given; both are JSON-RPC 2.0 codecs
Codecs == {"json2", "other"}

\* the content types given to RegisterCodec: "a" stands for application/json,
\* "b" for a second type, and the empty string is a legal argument
RegisteredTypes == {<<>>, <<"a">>, <<"A">>, <<"b">>}

\* the Content-Type headers of requests: absent, plain, in capitals with a
\* charset definition, a charset definition alone, and a second type
Headers ==
    {<<>>, << <<"a">> >>, << <<"A", ";", "c">> >>, << <<";", "c">> >>,
     << <<"b">> >>}

Receivers == {"Service1", "Service2"}
ServiceNames == {"", "Calc"}

\* the registrations made: each receiver under its type name, and Service1
\* under a name of its own as well
Registrations ==
    {p \in Receivers \X ServiceNames : p[2] = "" \/ p[1] = "Service1"}

ParamsObject == JObj([A |-> 4, B |-> 2])
ParamsArray == JArr(<<[T |-> "test"]>>)

Bodies ==
    {BadBody,
     Envelope("Service1.Multiply", ParamsObject, 1),
     Envelope("Service1.Multiply", JAbsent, 1),
     Envelope("Service1.Multiply", ParamsArray, 1),
     Envelope("Service1.ResponseError", ParamsObject, 1),
     Envelope("Service1.Nope", ParamsObject, 1),
     Envelope("Service2.Who", JAbsent, 1),
     Envelope("Service2.Who", ParamsArray, 1),
     Envelope("Service2.Fail", ParamsObject, 1),
     Envelope("Service2.Fail", ParamsArray, 1),
     Envelope("Service2.Null", JAbsent, 1),
     Envelope("Service1.ResponseError", JAbsent, 1),
     Envelope("Calc.Multiply", ParamsObject, 1),
     Envelope("Service2.Sum", ParamsObject, 1),
     Envelope("Service2.Sum", ParamsArray, 1)}

Request(verb, header, body) ==
    [Method |-> verb, Header |-> header, Body |-> body, Ctx |-> <<"req">>]

Verbs == {"POST", "GET", "post"}

\* the bodies of the requests that are not POST requests: a malformed one and
\* a well-formed one
OtherVerbBodies == {BadBody, Envelope("Service1.Multiply", ParamsObject, 1)}

\* the requests served
Requests ==
    {Request("POST", h, b) : h \in Headers, b \in Bodies}
    \cup {Request(v, h, b) :
            v \in Verbs \ {"POST"}, h \in Headers, b \in OtherVerbBodies}

\* the values of the caller's output variable before a decode: zero, and the
\* result of an earlier call
Holders == {[Result |-> 0], [Result |-> 8]}

\* the largest result in a response body decoded directly
MaxResult == 3

ErrorCodes == {E_PARSE, E_INVALID_REQ, E_NO_METHOD, E_BAD_PARAMS, E_INTERNAL, E_SERVER}

\* response bodies decoded directly, as TestDecodeNullResult does
RawBodies ==
    {<<[t |-> "json", id |-> [t |-> "num", n |-> id], result |-> result,
        error |-> error]>> :
        id \in {1, 12345},
        result \in {JAbsent, JNull, JArr(<<>>)}
                      \cup {JObj([Result |-> n]) : n \in 0..MaxResult},
        error \in {JAbsent, JNull}
                     \cup {JObj([code |-> c, message |-> m]) :
                             c \in ErrorCodes, m \in {"response error", "boom"}}}
    \cup {<<>>, <<[t |-> "text", msg |-> "not json"]>>}

-----------------------------------------------------------------------------
(* The state machine *)

Server == [codecs |-> codecs, services |-> services, before |-> before]

Idle == [pc |-> "idle"]
NoClient == [state |-> "idle"]

\* History: registered is the set of the (receiver, name) pairs given to
\* RegisterService; given maps a content type, written in capitals, to the
\* codec of the last RegisterCodec call whose content type is that one up to
\* letter case.
UpperChar(c) == IF c = "a" THEN "A" ELSE IF c = "b" THEN "B" ELSE c

ToUpper(s) == [i \in DOMAIN s |-> UpperChar(s[i])]

NoHistory == [registered |-> {}, given |-> EmptyMap]

RecordCodec(h, codec, contentType) ==
    [h EXCEPT !.given =
        [k \in DOMAIN h.given \cup {ToUpper(contentType)} |->
            IF k = ToUpper(contentType) THEN codec ELSE h.given[k]]]

RecordService(h, receiver, name) ==
    [h EXCEPT !.registered = @ \cup {<<receiver, name>>}]

\* what a client gets from a response body, for each value its output
\* variable may hold before the decode
Decoded(body) ==
    [state |-> "decoded", body |-> body,
     out |-> [res \in Holders |-> DecodeClientResponse(body, res)]]

Init ==
    \E options \in SeqsUpTo(Hooks, MaxHooks) :
        LET s == NewServer(options) IN
        /\ codecs = s.codecs
        /\ services = s.services
        /\ before = s.before
        /\ disp = Idle
        /\ client = NoClient
        /\ flights = <<>>
        /\ hist = NoHistory

\* s.RegisterCodec(codec, contentType); registration does not interleave with
\* a dispatch
RegisterCodec ==
    /\ disp = Idle
    /\ \E codec \in Codecs, contentType \in RegisteredTypes :
        /\ codecs' = CodecsPut(codecs, contentType, codec)
        /\ hist' = RecordCodec(hist, codec, contentType)
    /\ UNCHANGED <<services, before, disp, client, flights>>

\* s.RegisterService(receiver, name); registration does not interleave with
\* a dispatch
RegisterService ==
    /\ disp = Idle
    /\ \E reg \in Registrations :
        /\ services' = ServicesRegister(services, reg[1], reg[2])
        /\ hist' = RecordService(hist, reg[1], reg[2])
    /\ UNCHANGED <<codecs, before, disp, client, flights>>

\* one exchange as the tests run it: the request is served from entry to
\* return into a fresh recorder, and the client decodes the recorded body
Exchange ==
    /\ disp = Idle
    /\ \E r \in Requests :
        LET d == ServeHTTP(Server, r) IN
        /\ disp' = d
        /\ client' = Decoded(d.w.Body)
        /\ UNCHANGED <<codecs, services, before, flights, hist>>

\* the exchange is over: its recorder and the decoded values are dropped
Forget ==
    /\ disp # Idle
    /\ disp' = Idle
    /\ client' = NoClient
    /\ UNCHANGED <<codecs, services, before, flights, hist>>

Next == RegisterCodec \/ RegisterService \/ Exchange \/ Forget

Spec == Init /\ [][Next]_vars

\* The client-side decoder alone, on response bodies given directly.
InitDecode ==
    /\ codecs = EmptyMap
    /\ services = EmptyMap
    /\ before = <<>>
    /\ disp = Idle
    /\ client = NoClient
    /\ flights = <<>>
    /\ hist = NoHistory

DecodeRaw ==
    /\ \E body \in RawBodies : client' = Decoded(body)
    /\ UNCHANGED <<codecs, services, before, disp, flights, hist>>

NextDecode == DecodeRaw

SpecDecode == InitDecode /\ [][NextDecode]_vars

\* Dispatches running concurrently on a server whose registration is
\* complete.  Each flight is one call of ServeHTTP with a recorder of its own;
\* the steps of the flights interleave in any order.
Slots == {1, 2}

ConcRequests ==
    {Request("GET", << <<"a">> >>, BadBody),
     Request("POST", << <<"b">> >>, BadBody),
     Request("POST", << <<"b">> >>, Envelope("Service1.Multiply", ParamsObject, 1)),
     Request("POST", <<>>, Envelope("Service1.Multiply", ParamsObject, 1))}
    \cup {Request("POST", << <<"a">> >>, b) :
            b \in {Envelope("Service1.Multiply", ParamsObject, 1),
                   Envelope("Service1.Multiply", ParamsArray, 1),
                   Envelope("Service1.ResponseError", ParamsObject, 1),
                   Envelope("Service1.Nope", ParamsObject, 1),
                   Envelope("Service2.Who", JAbsent, 1)}}

\* the set-up before serving: NewServer(options...), one codec under "a",
\* both services under their type names
InitConc ==
    \E options \in SeqsUpTo(Hooks, MaxHooks) :
        LET s == NewServer(options) IN
        /\ codecs = CodecsPut(s.codecs, <<"a">>, "json2")
        /\ services = ServicesRegister(ServicesRegister(s.services, "Service1", ""),
                                       "Service2", "")
        /\ before = s.before
        /\ disp = Idle
        /\ client = NoClient
        /\ flights = [i \in Slots |-> Idle]
        /\ hist = RecordService(RecordService(
                      RecordCodec(NoHistory, "json2", <<"a">>),
                      "Service1", ""), "Service2", "")

\* the transport hands a request to ServeHTTP
Accept(i) ==
    /\ flights[i] = Idle
    /\ \E r \in ConcRequests : flights' = [flights EXCEPT ![i] = NewDispatch(r)]
    /\ UNCHANGED <<codecs, services, before, disp, client, hist>>

\* a slip: the hook loop takes each hook off the server's list
StepFlight_PopHooks(i) ==
    /\ flights[i].pc \notin {"idle", "done"}
    /\ flights' = [flights EXCEPT ![i] = Step(Server, flights[i])]
    /\ before' = IF flights[i].pc = "before" /\ before # <<>>
                 THEN Tail(before) ELSE before
    /\ UNCHANGED <<codecs, services, disp, client, hist>>

\* one step of one dispatch: it reads the server and writes its own locals
\* and its own recorder
StepFlight(i) ==
    /\ flights[i].pc \notin {"idle", "done"}
    /\ flights' = [flights EXCEPT ![i] = Step(Server, flights[i])]
    /\ UNCHANGED <<codecs, services, before, disp, client, hist>>

NextConc == \E i \in Slots : Accept(i) \/ StepFlight(i)

SpecConc == InitConc /\ [][NextConc]_vars

-----------------------------------------------------------------------------
(* Reading a finished dispatch *)

Done == disp.pc = "done"

Called(op) == \E i \in DOMAIN disp.calls : disp.calls[i].op = op

\* the calls with a given name, in order
CallsOf(op) == SelectSeq(disp.calls, LAMBDA e : e.op = op)

LastCall == disp.calls[Len(disp.calls)]

\* the dispatch was rejected with the plain-text error of this status, no
\* codec was selected and nothing else was called
RejectedWith(status) ==
    /\ Len(disp.calls) = 1
    /\ disp.codec = ""
    /\ LastCall.op = "WriteError"
    /\ LastCall.status = status
    /\ disp.w.Code = status

\* the dispatch obtained a codec request from this codec
UsedCodec(codec) ==
    /\ Called("codec.NewRequest")
    /\ \A i \in DOMAIN disp.calls :
          disp.calls[i].op = "codec.NewRequest" => disp.calls[i].codec = codec

\* the error object of the response body, when the body is one error envelope
WireErrorOf(body) == body[1].error.f

-----------------------------------------------------------------------------
(* C1: method not found *)

\* the case of C1: a POST request for which a codec was selected and whose
\* method name was extracted, the name not being in the method table
UnknownMethodCase ==
    /\ Done
    /\ disp.r.Method = "POST"
    /\ Called("codec.NewRequest")
    /\ disp.r.Body.t = "req"
    /\ disp.r.Body.method \notin DOMAIN services

\* C1: a POST request with a codec selected and a method name extracted, the
\* name not in the method table, ends with a JSON-RPC error of code -32601
\* passed to the codec with status 400; no service method is invoked and no
\* parameter is decoded.
C1_MethodNotFound ==
    UnknownMethodCase =>
        /\ LastCall.op = "codec.WriteError"
        /\ LastCall.status = 400
        /\ LastCall.err.kind = "Error"
        /\ LastCall.err.Code = -32601
        /\ Len(CallsOf("codec.WriteError")) = 1
        /\ WireErrorOf(disp.w.Body).code = -32601
        /\ ~Called("Call")
        /\ ~Called("codec.ReadRequest")
        /\ ~Called("codec.WriteResponse")

C1_Witness ==
    /\ UnknownMethodCase
    /\ disp.r.Body.method = "Service1.Nope"
    /\ "Service1.Multiply" \in DOMAIN services
    /\ LastCall.op = "codec.WriteError"

-----------------------------------------------------------------------------
(* C2: the fallback for a request without a Content-Type header *)

NoHeaderCase == Done /\ disp.r.Method = "POST" /\ disp.r.Header = <<>>

\* the codec of a registry that holds exactly one
SoleCodec == codecs[CHOOSE k \in DOMAIN codecs : TRUE]

\* C2 as stated: a POST request without a Content-Type header proceeds with
\* the sole codec when exactly one is registered, and fails with status 415,
\* no codec being used, when zero or more than one is registered.
C2_Original ==
    NoHeaderCase =>
        IF Cardinality(DOMAIN codecs) = 1
        THEN UsedCodec(SoleCodec)
        ELSE RejectedWith(415) /\ ~Called("codec.NewRequest")

\* C2 as amended: a POST request without a Content-Type header proceeds with
\* the sole codec when exactly one is registered; when zero or more than one
\* is registered it proceeds with the codec registered under the empty content
\* type if there is one, and fails with status 415, no codec being used,
\* otherwise.
C2_HeaderlessFallback ==
    NoHeaderCase =>
        IF Cardinality(DOMAIN codecs) = 1
        THEN UsedCodec(SoleCodec)
        ELSE IF <<>> \in DOMAIN codecs
             THEN UsedCodec(codecs[<<>>])
             ELSE RejectedWith(415) /\ ~Called("codec.NewRequest")

\* two codecs under non-empty content types, no header: 415
C2_Witness ==
    /\ NoHeaderCase
    /\ DOMAIN codecs = {<<"a">>, <<"b">>}
    /\ RejectedWith(415)

-----------------------------------------------------------------------------
(* C3: the nosniff header *)

NoSniff ==
    /\ "X-Content-Type-Options" \in DOMAIN disp.w.HeaderMap
    /\ disp.w.HeaderMap["X-Content-Type-Options"] = "nosniff"

\* C3 as stated: every dispatch, whatever its outcome, ends with the nosniff
\* header set.
C3_Original == Done => NoSniff

\* C3 as amended: a dispatch ends with the nosniff header set exactly when the
\* service method was invoked (success or application error); a dispatch that
\* ends before the invocation (405, 415, method-name parse error, method not
\* found, parameter decode failure) ends without it.
C3_NoSniffWhenInvoked == Done => (NoSniff <=> Called("Call"))

C3_Witness ==
    /\ Done
    /\ Called("Call")
    /\ disp.ret.err # NilErr
    /\ NoSniff

-----------------------------------------------------------------------------
(* C4: one encoding of the method's outcome *)

\* C4: after the service method is invoked exactly one encoding is performed:
\* WriteError with status 400 and the method's error, and no WriteResponse,
\* when the error return is non-nil; WriteResponse with the method's result,
\* and no WriteError, when it is nil.
C4_OneEncoding ==
    Done /\ Called("Call") =>
        LET n == Len(disp.calls)
            ret == Call(disp.spec, disp.refValue)
        IN  /\ disp.calls[n - 1].op = "Call"
            /\ Len(CallsOf("Call")) = 1
            /\ Len(disp.w.Body) = 1
            /\ ~Called("WriteError")
            /\ IF ret.err # NilErr
               THEN /\ LastCall.op = "codec.WriteError"
                    /\ LastCall.status = 400
                    /\ LastCall.err = ret.err
                    /\ ~Called("codec.WriteResponse")
                    /\ disp.w.Body[1].error.t = "obj"
               ELSE /\ LastCall.op = "codec.WriteResponse"
                    /\ LastCall.val = ret.val
                    /\ ~Called("codec.WriteError")
                    /\ disp.w.Body[1].error.t = "absent"

C4_Witness ==
    /\ Done
    /\ Called("Call")
    /\ disp.spec.method = "ResponseError"
    /\ LastCall.op = "codec.WriteError"
    /\ LastCall.err = ErrResponseError

-----------------------------------------------------------------------------
(* C5: positional parameters *)

\* the case of C5: the params of the request are a positional array and the
\* dispatch came to decode them into a parameter holder
ArrayParamsCase ==
    /\ Done
    /\ disp.r.Body.t = "req"
    /\ disp.r.Body.params.t = "arr"
    /\ Called("codec.ReadRequest")

\* C5: for a request whose params is a positional array, decoding into the
\* parameter holder fails, the dispatch is aborted with the codec's error and
\* status 400, the service method is never invoked, the client's decoded
\* result stays at the value it had (its zero value) and the client receives
\* a non-nil error.
C5_ArrayParamsRejected ==
    ArrayParamsCase =>
        /\ Len(CallsOf("codec.ReadRequest")) = 1
        /\ LastCall.op = "codec.WriteError"
        /\ LastCall.status = 400
        /\ LastCall.err # NilErr
        /\ LastCall.err =
              CodecReadRequest(disp.codecReq,
                               CallsOf("codec.ReadRequest")[1].holder).err
        /\ ~Called("Call")
        /\ ~Called("codec.WriteResponse")
        /\ \A res \in Holders :
              /\ client.out[res].res = res
              /\ client.out[res].err # NilErr
        /\ client.out[[Result |-> 0]].res.Result = 0

C5_Witness ==
    /\ ArrayParamsCase
    /\ disp.spec.method = "Multiply"
    /\ LastCall.op = "codec.WriteError"
    /\ client.out[[Result |-> 0]].err.kind = "Error"

-----------------------------------------------------------------------------
(* C6: the order of the hooks and the threading of the context *)

\* the hooks ran: the dispatch came to the method lookup
HooksRanCase == Done /\ Called("services.get")

\* the context after the last hook
FinalCtx ==
    LET ran == CallsOf("before")
    IN  IF ran = <<>> THEN disp.r.Ctx ELSE ran[Len(ran)].ctxOut

\* C6: the hooks run in the order of the ServerBefore options given to
\* NewServer; the first receives the request's context, each later one the
\* context returned by the hook before it, and the context bound to the
\* method's context parameter is the one returned by the last hook (the
\* request's context when there is no hook).
C6_HookChain ==
    /\ \A options \in SeqsUpTo(Hooks, MaxHooks) : NewServer(options).before = options
    /\ HooksRanCase =>
        LET ran == CallsOf("before") IN
        /\ [i \in DOMAIN ran |-> ran[i].hook] = before
        /\ \A i \in DOMAIN ran :
              /\ ran[i].ctxIn = IF i = 1 THEN disp.r.Ctx ELSE ran[i - 1].ctxOut
              /\ ran[i].ctxOut = RunHook(ran[i].hook, ran[i].ctxIn, disp.method,
                                         disp.r.Header, disp.codecReq)
        /\ \A c \in DOMAIN disp.calls :
              disp.calls[c].op = "Call" =>
                 \A a \in DOMAIN disp.calls[c].args :
                    disp.calls[c].args[a].t = "ctx" =>
                       disp.calls[c].args[a].ctx = FinalCtx

C6_Witness ==
    /\ HooksRanCase
    /\ before = <<"h2", "h1">>
    /\ Called("Call")
    /\ disp.spec.method = "Who"
    /\ disp.refValue[2] = GoCtx(<<"req", "h2", "h1">>)

-----------------------------------------------------------------------------
(* C7: the transport method *)

\* C7: a request whose transport method is not POST is rejected with status
\* 405 as the first and terminal step: nothing but the plain-text WriteError
\* is called, whatever the Content-Type header and the registered codecs.
C7_NonPostRejected ==
    Done /\ disp.r.Method # "POST" =>
        /\ RejectedWith(405)
        /\ disp.w.Body =
              <<[t |-> "text",
                 msg |-> "rpc: POST method required, received " \o disp.r.Method]>>

\* a GET request with a content type no codec is registered under: 405
C7_Witness ==
    /\ Done
    /\ disp.r.Method = "GET"
    /\ disp.r.Header = << <<"b">> >>
    /\ <<"b">> \notin DOMAIN codecs
    /\ codecs # EmptyMap
    /\ RejectedWith(405)

-----------------------------------------------------------------------------
(* C8: the selection of the codec by content type *)

\* a header value up to, not including, its first ';'
RECURSIVE UpToSemicolon(_)
UpToSemicolon(v) ==
    IF v = <<>> \/ Head(v) = ";" THEN <<>>
    ELSE <<Head(v)>> \o UpToSemicolon(Tail(v))

EqualFold(a, b) == ToLower(a) = ToLower(b)

HeaderCase == Done /\ disp.r.Method = "POST" /\ disp.r.Header # <<>>

\* the codec registered under a content type equal to ct ignoring case, chosen
\* or rejected as C8 says
SelectedByType(ct) ==
    IF \E k \in DOMAIN codecs : EqualFold(k, ct)
    THEN UsedCodec(codecs[CHOOSE k \in DOMAIN codecs : EqualFold(k, ct)])
    ELSE RejectedWith(415) /\ ~Called("codec.NewRequest")

\* C8 as stated: for a POST request with a Content-Type header the codec is
\* the one registered under the header value up to the first ';', compared
\* ignoring case; with no such codec the dispatch fails with status 415
\* without creating a codec request.
C8_Original == HeaderCase => SelectedByType(UpToSemicolon(disp.r.Header[1]))

\* C8 as amended: the same, except that when the header value up to the first
\* ';' is empty and exactly one codec is registered, that sole codec is
\* selected whatever content type it is registered under.
C8_CodecByContentType ==
    HeaderCase =>
        LET ct == UpToSemicolon(disp.r.Header[1]) IN
        IF ct = <<>> /\ Cardinality(DOMAIN codecs) = 1
        THEN UsedCodec(SoleCodec)
        ELSE SelectedByType(ct)

\* "A;c" selects the codec registered as "a" among two
C8_Witness ==
    /\ HeaderCase
    /\ disp.r.Header = << <<"A", ";", "c">> >>
    /\ DOMAIN codecs = {<<"a">>, <<"b">>}
    /\ codecs[<<"a">>] # codecs[<<"b">>]
    /\ UsedCodec(codecs[<<"a">>])

-----------------------------------------------------------------------------
(* C9: the error on the wire *)

AppErrorCase == Done /\ Called("Call") /\ disp.ret.err # NilErr

\* C9: an error returned by the method that is not a tagged Error is written
\* with code -32000 and the error's message text; a tagged Error is written
\* with its own code and message; in both cases the client's decode yields an
\* error whose message is the method's error message.
C9_WireError ==
    AppErrorCase =>
        LET err == Call(disp.spec, disp.refValue).err
            wire == WireErrorOf(disp.w.Body)
        IN  /\ Len(disp.w.Body) = 1
            /\ wire.code = IF err.kind = "Error" THEN err.Code ELSE -32000
            /\ wire.message = err.Message
            /\ \A res \in Holders : client.out[res].err.Message = err.Message

\* the untagged error of Service2.Fail on the wire
C9_Witness ==
    /\ AppErrorCase
    /\ disp.ret.err.kind = "plain"
    /\ WireErrorOf(disp.w.Body).code = -32000
    /\ WireErrorOf(disp.w.Body).message = "boom"

-----------------------------------------------------------------------------
(* C10: a null result *)

\* the case of C10: the body decoded is one success-shaped envelope whose
\* result is JSON null
NullResultCase ==
    /\ client.state = "decoded"
    /\ Len(client.body) = 1
    /\ client.body[1].t = "json"
    /\ client.body[1].error.t = "absent"
    /\ client.body[1].result.t = "null"

\* C10: decoding a success-shaped response whose result is JSON null yields
\* the ErrNullResult value, neither a generic decode error nor success, and
\* leaves the caller's output value as it was.
C10_NullResult ==
    NullResultCase =>
        \A res \in Holders :
           /\ client.out[res].err.kind = "plain"
           /\ client.out[res].err.ref = "ErrNullResult"
           /\ client.out[res].err.Message = "result is null"
           /\ client.out[res].res = res

C10_Witness ==
    /\ NullResultCase
    /\ client.body[1].id.n = 12345
    /\ client.out[[Result |-> 0]].err = ErrNullResult


-----------------------------------------------------------------------------
(* C11: a request without params *)

\* the declared parameters that are decoded: those not of the context type
BusinessParams(argsType) == SelectSeq(argsType, LAMBDA t : t # typeOfContext)

\* the request has no params field and names a registered method that has
\* one parameter besides the context
NoParamsCase ==
    /\ Done
    /\ Called("services.get")
    /\ disp.r.Body.params = JAbsent
    /\ HasMethod(services, disp.method)
    /\ Len(BusinessParams(services[disp.method].argsType)) = 1

-----------------------------------------------------------------------------
(* C12: HasMethod and the lookup of the dispatcher *)

\* the name a method is registered under: "<name>.<MethodName>", the name
\* being the receiver's type name when none is given
ServiceKey(receiver, name, method) ==
    (IF name = "" THEN receiver ELSE name) \o "." \o method

\* the dispatch ended in method-not-found: the lookup was its last call
\* before the error response
EndsNotFound ==
    /\ Len(disp.calls) >= 2
    /\ disp.calls[Len(disp.calls) - 1]
         = [op |-> "services.get", method |-> disp.method]
    /\ LastCall = [op |-> "codec.WriteError", codec |-> disp.codec,
                   status |-> 400,
                   err |-> NewError(E_NO_METHOD,
                                    "rpc: can't find method " \o disp.method)]

-----------------------------------------------------------------------------
(* C13: concurrent dispatches *)

\* what a dispatch leaves behind: its response (status, headers, body) and
\* the calls it made
Outcome(d) == [w |-> d.w, calls |-> d.calls, ret |-> d.ret]

\* C13: once registration is complete, no step of a dispatch modifies the
\* codec registry, the method table or the hook list; and under every
\* interleaving of the steps of concurrent dispatches, each finished dispatch
\* has the outcome of the same request served alone.
C13_Isolation ==
    /\ [][UNCHANGED <<codecs, services, before>>]_vars
    /\ [](\A i \in Slots :
            flights[i].pc = "done" =>
                Outcome(flights[i]) = Outcome(ServeHTTP(Server, flights[i].r)))

\* one dispatch has finished with a success response while another one, for
\* another request, stands between its hooks and its call
C13_Witness ==
    /\ flights[1].pc = "done"
    /\ flights[1].calls[Len(flights[1].calls)].op = "codec.WriteResponse"
    /\ flights[2].pc \in {"get", "args", "call"}
    /\ flights[2].r # flights[1].r
    /\ before # <<>>


-----------------------------------------------------------------------------
(* C14: the order of the steps of one dispatch *)

Ops == [i \in DOMAIN disp.calls |-> disp.calls[i].op]

Repeat(x, n) == [i \in 1..n |-> x]

IsPrefix(p, q) == Len(p) <= Len(q) /\ p = SubSeq(q, 1, Len(p))

\* the calls of a dispatch that gets as far as the method, in order: the
\* method name is extracted, every hook runs, the method is looked up, each
\* business parameter is decoded, the method is called
Pipeline ==
    <<"codec.NewRequest", "codec.Method">>
    \o Repeat("before", Len(before))
    \o <<"services.get">>
    \o Repeat("codec.ReadRequest",
              IF HasMethod(services, disp.method)
              THEN Len(BusinessParams(services[disp.method].argsType)) ELSE 0)
    \o <<"Call">>

ResponseOps == {"WriteError", "codec.WriteError", "codec.WriteResponse"}

\* everything of the claimed order but the place of the nosniff header: the
\* verb is checked first, then the codec is selected, then the calls follow
\* the pipeline up to the step that fails, where the response is written;
\* the method is called at most once, after all the steps before it
OrderOfCalls ==
    /\ Len(disp.calls) >= 1
    /\ LastCall.op \in ResponseOps
    /\ disp.r.Method # "POST" =>
            /\ Len(disp.calls) = 1
            /\ LastCall.op = "WriteError" /\ LastCall.status = 405
    /\ (disp.r.Method = "POST" /\ disp.codec = "") =>
            /\ Len(disp.calls) = 1
            /\ LastCall.op = "WriteError" /\ LastCall.status = 415
    /\ (disp.r.Method = "POST" /\ disp.codec # "") =>
            /\ LastCall.op # "WriteError"
            /\ IsPrefix(SubSeq(Ops, 1, Len(Ops) - 1), Pipeline)
    /\ Len(CallsOf("Call")) <= 1
    /\ Called("Call") => SubSeq(Ops, 1, Len(Ops) - 1) = Pipeline

SetNoSniff == [op |-> "Header.Set", key |-> "X-Content-Type-Options"]

\* C14 as stated: the nosniff header is set after the outcome is encoded
C14_Original ==
    Done => /\ OrderOfCalls
            /\ Called("Call") => disp.w.log = <<[op |-> "Write"], SetNoSniff>>

\* C14: within one dispatch the steps execute in the order verb check, codec
\* selection, method-name extraction, every hook, method lookup, argument
\* materialization, method invocation, inspection of the outcome, setting
\* of the nosniff header, and then encoding of the outcome; the method is
\* invoked at most once per request and only after all earlier steps
\* succeeded.
C14_StepOrder ==
    Done => /\ OrderOfCalls
            /\ Called("Call") => disp.w.log = <<SetNoSniff, [op |-> "Write"]>>

\* a dispatch through two hooks and two decoded parameters to the call
C14_Witness ==
    /\ Done
    /\ Len(before) = 2
    /\ Ops = <<"codec.NewRequest", "codec.Method", "before", "before",
               "services.get", "codec.ReadRequest", "codec.ReadRequest", "Call",
               "codec.WriteResponse">>
    /\ disp.w.log = <<SetNoSniff, [op |-> "Write"]>>


-----------------------------------------------------------------------------
(* C15: the hooks run before the method is resolved *)

\* the codec was reached and gave the method name of the request
NameExtracted ==
    /\ Done
    /\ Called("codec.Method")
    /\ CodecMethod(disp.codecReq).err = NilErr

\* the hooks that ran, in order
HooksRun == [i \in DOMAIN CallsOf("before") |-> CallsOf("before")[i].hook]

\* the position of the first call with a given name, 0 if there is none
FirstOf(op) ==
    IF Called(op)
    THEN CHOOSE i \in DOMAIN disp.calls :
            disp.calls[i].op = op /\ \A j \in 1..(i - 1) : disp.calls[j].op # op
    ELSE 0

\* C15: on every request whose method name was extracted, each registered
\* hook runs exactly once, in registration order and with that name, before
\* the method is looked up, also when the name is not registered or the
\* decoding of the parameters fails later; on a request ended by 405, 415 or
\* a method-name parse error no hook runs.
C15_HooksBeforeLookup ==
    Done =>
        IF NameExtracted
        THEN /\ HooksRun = before
             /\ \A i \in DOMAIN disp.calls :
                    disp.calls[i].op = "before" =>
                        /\ disp.calls[i].method = disp.method
                        /\ i < FirstOf("services.get")
             /\ Called("services.get")
        ELSE /\ HooksRun = <<>>
             /\ ~Called("services.get")

\* two hooks have run on a request for a method that is not registered
C15_Witness ==
    /\ NameExtracted
    /\ EndsNotFound
    /\ Len(before) = 2
    /\ HooksRun = before


-----------------------------------------------------------------------------
(* C16: the materialization of the arguments *)

\* the dispatch found its method and went on to its parameters
ArgsCase == Done /\ Called("services.get") /\ HasMethod(services, disp.method)

\* the argument the method gets for a declared parameter type: the context
\* as the hooks left it, or a pointer to a fresh holder, decoded
ArgFor(type) ==
    IF type = typeOfContext
    THEN GoCtx(FinalCtx)
    ELSE GoPtr(type, CodecReadRequest(disp.codecReq, Zero(type)).val)

\* C16: argument materialization follows the declared parameters in order.
\* The parameter decoder is called for the declared parameters that are not
\* of the context type, in declaration order, once each, each time with a
\* freshly allocated holder, and never for a context-typed parameter; the
\* decoding goes through all of them unless one fails, which ends the
\* dispatch.  The method is called with the receiver followed by one
\* argument per declared parameter in declaration order, so a method whose
\* only parameter is the context is invoked without any decode and cannot
\* fail with a decode error.
C16_Materialization ==
    ArgsCase =>
        LET spec == services[disp.method]
            params == BusinessParams(spec.argsType)
            reads == CallsOf("codec.ReadRequest")
        IN  /\ IsPrefix([i \in DOMAIN reads |-> reads[i].type], params)
            /\ \A i \in DOMAIN reads :
                    /\ reads[i].type # typeOfContext
                    /\ reads[i].holder = Zero(reads[i].type)
            /\ IF Called("Call")
               THEN /\ Len(reads) = Len(params)
                    /\ disp.refValue[1] = [t |-> "rcvr", type |-> spec.rcvr]
                    /\ CallsOf("Call")[1].rcvr = spec.rcvr
                    /\ CallsOf("Call")[1].args
                         = [i \in DOMAIN spec.argsType |-> ArgFor(spec.argsType[i])]
               ELSE /\ reads # <<>>
                    /\ CodecReadRequest(disp.codecReq,
                                        reads[Len(reads)].holder).err # NilErr
                    /\ LastCall.op = "codec.WriteError"
            /\ params = <<>> => Called("Call") /\ reads = <<>>

\* a method with the context and two business parameters is called with
\* three arguments after two decodes
C16_Witness ==
    /\ ArgsCase
    /\ disp.method = "Service2.Sum"
    /\ Len(CallsOf("codec.ReadRequest")) = 2
    /\ Called("Call")
    /\ Len(CallsOf("Call")[1].args) = 3
    /\ CallsOf("Call")[1].args[1].t = "ctx"
    /\ before # <<>>


-----------------------------------------------------------------------------
(* C17: one response per dispatch *)

\* the calls that write a response
Responses == SelectSeq(disp.calls, LAMBDA e : e.op \in ResponseOps)

\* the writes of body bytes on the recorder
BodyWrites == SelectSeq(disp.w.log, LAMBDA e : e.op = "Write")

\* C17: every dispatch terminates having written exactly one response: of
\* the plain-text WriteError, the codec's WriteError and the codec's
\* WriteResponse exactly one is called, exactly once; it is the last call of
\* the dispatch and its write is the last thing done to the response; no
\* step that failed is run a second time.
C17_OneResponse ==
    /\ disp = Idle \/ Done
    /\ Done =>
        /\ Len(Responses) = 1
        /\ LastCall.op \in ResponseOps
        /\ Len(disp.w.Body) = 1
        /\ Len(BodyWrites) = 1
        /\ disp.w.log[Len(disp.w.log)] = [op |-> "Write"]
        /\ \A op \in {"codec.NewRequest", "codec.Method", "services.get", "Call"} :
                Len(CallsOf(op)) <= 1
        /\ Len(CallsOf("before")) <= Len(before)
        /\ Len(CallsOf("codec.ReadRequest")) <= Len(disp.spec.argsType)

\* a dispatch that failed at the second of its steps that can fail, after it
\* ran a hook: the lookup was made once and the error is the only response
C17_Witness ==
    /\ Done
    /\ EndsNotFound
    /\ before # <<>>
    /\ Len(Responses) = 1
    /\ Len(disp.w.Body) = 1


-----------------------------------------------------------------------------
(* C18: the plain-text rejections *)

\* the dispatch was refused with 405 or 415
RejectionCase ==
    /\ Done
    /\ LastCall.op = "WriteError"
    /\ LastCall.status \in {405, 415}

\* the headers of the response when WriteHeader commits a status
CommittedWith(status) ==
    {e.header : e \in {x \in {disp.w.log[i] : i \in DOMAIN disp.w.log} :
                          x.op = "WriteHeader" /\ x.code = status}}

\* C18: a 405 or 415 rejection is delivered as a plain-text response and not
\* as a JSON-RPC envelope: the status is committed by WriteHeader once, the
\* Content-Type header text/plain; charset=utf-8 is among the response
\* headers at that moment, and the body is the message text.
C18_PlainTextRejection ==
    RejectionCase =>
        /\ CommittedWith(LastCall.status) # {}
        /\ \A h \in CommittedWith(LastCall.status) :
                /\ "Content-Type" \in DOMAIN h
                /\ h["Content-Type"] = "text/plain; charset=utf-8"
        /\ disp.w.Body = <<[t |-> "text", msg |-> LastCall.msg]>>


-----------------------------------------------------------------------------
(* C19: the codec registry *)

\* the content types of the registrations and of the requests
ContentTypes ==
    RegisteredTypes \cup {UpToSemicolon(HeaderGet(h)) : h \in Headers}

\* the dispatch looked its content type up in the registry
LookupCase ==
    /\ Done
    /\ disp.r.Method = "POST"
    /\ ~(ContentTypeOf(disp.r) = <<>> /\ Cardinality(DOMAIN codecs) = 1)

\* C19: after any sequence of RegisterCodec calls, the registry holds at most
\* one codec per content type compared ignoring letter case; the entry for a
\* content type is the codec given in the last RegisterCodec call whose
\* content type equals it ignoring case (a later registration replaces an
\* earlier one and leaves the entries of other content types as they were),
\* there is no entry for a content type never registered, and the registry
\* lookup of a dispatch selects that codec.
C19_LastCodecWins ==
    /\ \A k1, k2 \in DOMAIN codecs : EqualFold(k1, k2) => k1 = k2
    /\ \A ct \in ContentTypes :
            LET entries == {k \in DOMAIN codecs : EqualFold(k, ct)} IN
            IF ToUpper(ct) \in DOMAIN hist.given
            THEN /\ Cardinality(entries) = 1
                 /\ \A k \in entries : codecs[k] = hist.given[ToUpper(ct)]
            ELSE entries = {}
    /\ LookupCase =>
            IF ToUpper(ContentTypeOf(disp.r)) \in DOMAIN hist.given
            THEN disp.codec = hist.given[ToUpper(ContentTypeOf(disp.r))]
            ELSE RejectedWith(415)

\* the last registration for "a", in either case, gave the second codec, and
\* "b" has a codec of its own: a request of type "a" is served by the second
\* codec
C19_Witness ==
    /\ DOMAIN hist.given = {<<"A">>, <<"B">>}
    /\ hist.given[<<"A">>] = "other"
    /\ hist.given[<<"B">>] = "json2"
    /\ LookupCase
    /\ ContentTypeOf(disp.r) = <<"a">>
    /\ disp.codec = "other"
    /\ Called("codec.NewRequest")

=============================================================================
